---- MODULE Spec2Model ----
(***************************************************************************)
(* vivid-opencv: the cook lifecycle of the three vision operators          *)
(* (Contours, OpticalFlow, BlobTrack) and the state each keeps across      *)
(* frames.                                                                 *)
(*                                                                         *)
(* One operator instance is modelled at a time: `kind` is the class that   *)
(* was constructed, `self` is the object (its fields keep the source's     *)
(* names).  The operators share no state, so a behaviour of the program    *)
(* with several operators is an interleaving of behaviours of this model.  *)
(*                                                                         *)
(* Images are abstract: a frame is an identifier, a matrix is its size     *)
(* plus a description of what was drawn into it.  Ratios are in            *)
(* hundredths (scale 0.99 is 99, minCircularity 0.1 is 10).                *)
(*                                                                         *)
(* `gpu` is the state of the TextureCodec functions (textureToMat,         *)
(* matToTexture) and of the texture they work on; `conv` is a pixel value  *)
(* or a row width on its way through the conversions.  The operators and   *)
(* the codec do not touch each other's state: Spec runs the operators,     *)
(* SpecCodec the codec calls, SpecConvert the conversions.                 *)
(***************************************************************************)
EXTENDS Integers, Sequences, FiniteSets, TLC

VARIABLES kind, self, inputOp, cpuView, call, hist, gpu, conv

vars == <<kind, self, inputOp, cpuView, call, hist, gpu, conv>>

(***************************************************************************)
(* Bounds of the model                                                     *)
(***************************************************************************)
\* upstream frames are numbered 1..NumFrames; frame 1 is all black
NumFrames == 2
\* at most this many BlobTrack parameters are away from their default at once
MaxNonDefault == 1
\* the algorithm is counted up to this many executions in a row
MaxRuns == 2

(***************************************************************************)
(* Program constants                                                       *)
(***************************************************************************)
\* if (width < 16 || height < 16)
MinSize == 16
\* std::clamp(scale, 0.1f, 1.0f), in hundredths
ScaleLo == 10
ScaleHi == 100
\* Param<float> scale{"scale", 0.15f, 0.05f, 1.0f}: the declared minimum, in
\* hundredths
ScaleDeclaredMin == 5
\* if (s < 0.99f), in hundredths
FullResScale == 99
\* initial value of every cached detector parameter
NoCache == -1

\* a null pointer (an empty cv::Ptr, no history yet); a held value v is <<v>>
NULL == <<>>

\* the data pointer of a view without pixels
NoData == 0

Kinds == {"Contours", "OpticalFlow", "BlobTrack"}

Frames == 1..NumFrames

\* widths and heights the upstream produces: 0 (non-positive), 10 (below the
\* floor), 16 (the floor) and 40
InputSizes == {<<0, 16>>, <<10, 40>>, <<40, 10>>, <<16, 16>>, <<40, 40>>}

\* a size whose twentieth is above the floor; it matters to the operator that
\* resizes its input, OpticalFlow
LargeSizes == {<<400, 400>>}

\* values of the scale parameter, in hundredths (declared range 5..100)
ScaleValues == {5, FullResScale}

VizModes == {0, 1, 2}

(***************************************************************************)
(* Pixel views and buffers                                                 *)
(***************************************************************************)
\* a default-constructed CpuPixelView: `return {};`
InvalidView == [data |-> NoData, width |-> 0, height |-> 0]

Views == {InvalidView} \cup
         {[data |-> f, width |-> s[1], height |-> s[2]] : f \in Frames, s \in InputSizes}

\* the views the upstream of an operator of kind k exposes
ViewsFor(k) ==
    Views \cup
    (IF k = "OpticalFlow"
     THEN {[data |-> f, width |-> s[1], height |-> s[2]] : f \in Frames, s \in LargeSizes}
     ELSE {})

\* CpuPixelView::valid(): non-null data and positive dimensions
valid(view) == view.data # NoData /\ view.width > 0 /\ view.height > 0

\* an empty std::vector<uint8_t>
EmptyPixels == [size |-> 0, px |-> [tag |-> "none", bgra |-> <<>>, of |-> 0]]

\* cv::Mat(height, width, CV_8UC4, cv::Scalar(b, g, r, a))
SolidMat(width, height, b, g, r, a) ==
    [cols |-> width, rows |-> height,
     px |-> [tag |-> "solid", bgra |-> <<b, g, r, a>>, of |-> 0]]

\* a 4-channel matrix holding a rendering `tag` of frame `f`
DrawnMat(width, height, tag, f) ==
    [cols |-> width, rows |-> height,
     px |-> [tag |-> tag, bgra |-> <<>>, of |-> f]]

\* an empty cv::Mat
NoMat == [cols |-> 0, rows |-> 0, of |-> 0]

\* m_outputPixels.assign(output.data, output.data + total * elemSize)
AssignPixels(mat) == [size |-> mat.cols * mat.rows * 4, px |-> mat.px]

\* m_outputPixels.data() of a non-empty vector: some non-null address
OutputData == 1

\* cpuPixelView() of the three operators
cpuPixelView(op) ==
    IF op.m_outputPixels.size = 0 \/ op.m_outputWidth <= 0 \/ op.m_outputHeight <= 0
    THEN InvalidView
    ELSE [data |-> OutputData, width |-> op.m_outputWidth, height |-> op.m_outputHeight]

(***************************************************************************)
(* Cook lifecycle of the base class                                        *)
(***************************************************************************)
needsCook(op) == op.dirty

didCook(op) == [op EXCEPT !.dirty = FALSE]

markDirty(op) == [op EXCEPT !.dirty = TRUE]

\* what one process call did: the path it took, how many times it called
\* didCook, whether the algorithm ran, the detector was built, flow was
\* computed, and the pixel storages it wrote (none before the early exits)
Call(path, cooks, ran, built, flowed) ==
    [path |-> path, cooks |-> cooks, ran |-> ran, built |-> built, flowed |-> flowed,
     wrote |-> {}]

\* the storage of the upstream pixel buffer: the zero-copy wrapper `input`
\* points at it, every other matrix at an allocation of the call
Upstream == "upstream"

\* the call wrote the storages `wrote`
Wrote(c, wrote) == [c EXCEPT !.wrote = wrote]

\* the upstream view after a call: what a write to its storage leaves is no
\* longer the frame
Written(view, c) == IF Upstream \in c.wrote THEN [view EXCEPT !.data = 0 - @] ELSE view

NoCall == Call("none", 0, FALSE, FALSE, FALSE)

Ret(op, c) == [op |-> op, call |-> c]

SkipPaths == {"noInput", "invalidView", "tooSmall"}

(***************************************************************************)
(* Contours                                                                *)
(***************************************************************************)
\* Param<float> threshold1{"threshold1", 100.0f, 0.0f, 255.0f} and threshold2
\* {"threshold2", 200.0f, 0.0f, 255.0f}: the defaults, and the pairs the host
\* sets: the defaults, both at the declared minimum, both at the maximum
ThresholdDefaults == <<100, 200>>

ThresholdPairs == {ThresholdDefaults, <<0, 0>>, <<255, 255>>}

ContoursNew ==
    [dirty |-> TRUE,
     m_outputPixels |-> EmptyPixels, m_outputWidth |-> 0, m_outputHeight |-> 0,
     contours |-> 0, mode |-> 0,
     threshold1 |-> ThresholdDefaults[1], threshold2 |-> ThresholdDefaults[2]]

\* Param<int> mode{"mode", 0, 0, 3}
ContourModes == 0..3

\* the matrices Contours::process writes: cvtColor fills gray, Canny fills
\* edges, drawContours draws on output
ContoursWrites == {"gray", "edges", "output"}

\* the all-black frame
BlackFrame == 1

\* the largest gradient magnitude of the luminance of frame f: none in the
\* all-black frame
EdgeStrength(f) == (f - BlackFrame) * 250

\* cv::Canny: an edge starts at a pixel whose gradient magnitude is above the
\* larger of the two thresholds
Canny(f, threshold1, threshold2) ==
    EdgeStrength(f) > (IF threshold1 > threshold2 THEN threshold1 ELSE threshold2)

\* cv::Canny + cv::findContours: the number of contours traced in frame f.
\* Without edges there is none; RETR_EXTERNAL (mode 0) keeps the outer
\* boundaries only, the other modes the inner ones as well
FindContours(f, mode, threshold1, threshold2) ==
    IF ~Canny(f, threshold1, threshold2) THEN 0
    ELSE IF mode = 0 THEN f - BlackFrame ELSE 2 * (f - BlackFrame)

\* ContoursCook with the background of OpticalFlow's output, opaque black
ContoursCookOpaque(op, view) ==
    LET n      == FindContours(view.data, op.mode, op.threshold1, op.threshold2)
        output == IF n = 0
                  THEN SolidMat(view.width, view.height, 0, 0, 0, 255)
                  ELSE DrawnMat(view.width, view.height, "contours", view.data)
    IN  Ret(didCook([op EXCEPT !.contours = n,
                               !.m_outputWidth = view.width,
                               !.m_outputHeight = view.height,
                               !.m_outputPixels = AssignPixels(output)]),
            Wrote(Call("cooked", 1, TRUE, FALSE, FALSE), ContoursWrites))

ContoursCleanup(op) ==
    [op EXCEPT !.m_outputPixels = EmptyPixels, !.m_outputWidth = 0, !.m_outputHeight = 0]

\* the part of Contours::process after the early exits
ContoursCook(op, view) ==
    LET n      == FindContours(view.data, op.mode, op.threshold1, op.threshold2)
        output == IF n = 0
                  THEN SolidMat(view.width, view.height, 0, 0, 0, 0)
                  ELSE DrawnMat(view.width, view.height, "contours", view.data)
    IN  Ret(didCook([op EXCEPT !.contours = n,
                               !.m_outputWidth = view.width,
                               !.m_outputHeight = view.height,
                               !.m_outputPixels = AssignPixels(output)]),
            Wrote(Call("cooked", 1, TRUE, FALSE, FALSE), ContoursWrites))

\* ContoursProcess with a skip on an invalid view that also empties the output
ContoursProcessClearOnSkip(op, input, view) ==
    IF ~needsCook(op) THEN Ret(op, Call("clean", 0, FALSE, FALSE, FALSE))
    ELSE IF ~input THEN Ret(didCook(op), Call("noInput", 1, FALSE, FALSE, FALSE))
    ELSE IF ~valid(view)
         THEN Ret(didCook(ContoursCleanup(op)), Call("invalidView", 1, FALSE, FALSE, FALSE))
    ELSE IF view.width < MinSize \/ view.height < MinSize
         THEN Ret(didCook(op), Call("tooSmall", 1, FALSE, FALSE, FALSE))
    ELSE ContoursCook(op, view)

ContoursProcess(op, input, view) ==
    IF ~needsCook(op) THEN Ret(op, Call("clean", 0, FALSE, FALSE, FALSE))
    ELSE IF ~input THEN Ret(didCook(op), Call("noInput", 1, FALSE, FALSE, FALSE))
    ELSE IF ~valid(view) THEN Ret(didCook(op), Call("invalidView", 1, FALSE, FALSE, FALSE))
    ELSE IF view.width < MinSize \/ view.height < MinSize
         THEN Ret(didCook(op), Call("tooSmall", 1, FALSE, FALSE, FALSE))
    ELSE ContoursCook(op, view)

(***************************************************************************)
(* OpticalFlow                                                             *)
(***************************************************************************)
\* Param<float> scale{"scale", 0.15f, 0.05f, 1.0f}, in hundredths
ScaleDefault == 15

\* if (procWidth < 16) procWidth = 16;
MinProc == 16

OpticalFlowNew ==
    [dirty |-> TRUE,
     m_outputPixels |-> EmptyPixels, m_outputWidth |-> 0, m_outputHeight |-> 0,
     prevGray |-> NoMat, flow |-> NoMat, hasPrevFrame |-> FALSE,
     scale |-> ScaleDefault, vizMode |-> 0]

\* OpticalFlowCleanup that keeps the previous luminance
OpticalFlowCleanupKeepsPrev(op) ==
    [op EXCEPT !.m_outputPixels = EmptyPixels, !.m_outputWidth = 0, !.m_outputHeight = 0,
               !.flow = NoMat]

OpticalFlowCleanup(op) ==
    [op EXCEPT !.m_outputPixels = EmptyPixels, !.m_outputWidth = 0, !.m_outputHeight = 0,
               !.prevGray = NoMat, !.flow = NoMat, !.hasPrevFrame = FALSE]

\* std::clamp(static_cast<float>(scale), 0.1f, 1.0f)
ClampScale(scale) ==
    IF scale < ScaleLo THEN ScaleLo ELSE IF scale > ScaleHi THEN ScaleHi ELSE scale

\* static_cast<int>(width * s), raised to 16
ProcDim(dim, s) ==
    LET p == (dim * s) \div 100 IN IF p < MinProc THEN MinProc ELSE p

\* the size of `gray`: `small` is the resized frame below 0.99 and the input
\* itself otherwise
GraySize(view, scale) ==
    LET s == ClampScale(scale)
    IN  IF s < FullResScale
        THEN <<ProcDim(view.width, s), ProcDim(view.height, s)>>
        ELSE <<view.width, view.height>>

\* the size of the saturation plane: cv::Mat(procHeight, procWidth, CV_8U, 255)
SatSize(view, scale) ==
    LET s == ClampScale(scale) IN <<ProcDim(view.width, s), ProcDim(view.height, s)>>

\* the storage of `small`: cv::resize fills an allocation below 0.99,
\* `small = input` shares the upstream buffer otherwise
SmallStorage(scale) == IF ClampScale(scale) < FullResScale THEN "small" ELSE Upstream

\* FlowWrites with the luminance conversion done in place: cvtColor(small, small)
FlowWritesInPlace(op, flowed) ==
    {SmallStorage(op.scale), "output", "prevGray"}
       \cup (IF flowed THEN {"flow", "smallOutput"} ELSE {})

\* the matrices OpticalFlow::process writes: resize fills small, cvtColor fills
\* gray, copyTo / arrowedLine / resize fill output, gray.copyTo fills prevGray
FlowWrites(op, flowed) ==
    (IF SmallStorage(op.scale) = Upstream THEN {} ELSE {SmallStorage(op.scale)})
       \cup {"gray", "output", "prevGray"}
       \cup (IF flowed THEN {"flow", "smallOutput"} ELSE {})

\* FlowBlankOutput with a transparent fill
FlowTransparentOutput(view) == SolidMat(view.width, view.height, 0, 0, 0, 0)

\* cv::Mat output(height, width, CV_8UC4, cv::Scalar(0, 0, 0, 255))
FlowBlankOutput(view) == SolidMat(view.width, view.height, 0, 0, 0, 255)

\* FlowHasPrev without the size comparison
FlowHasPrevAnySize(op, gray) == op.hasPrevFrame

\* if (m_impl->hasPrevFrame && m_impl->prevGray.size() == gray.size())
FlowHasPrev(op, gray) ==
    op.hasPrevFrame /\ op.prevGray.cols = gray.cols /\ op.prevGray.rows = gray.rows

\* gray.copyTo(prevGray); hasPrevFrame = true; store the output; didCook()
FlowFinish(op, view, gray, output) ==
    didCook([op EXCEPT !.prevGray = gray,
                       !.hasPrevFrame = TRUE,
                       !.m_outputWidth = view.width,
                       !.m_outputHeight = view.height,
                       !.m_outputPixels = AssignPixels(output)])

\* the part of OpticalFlow::process after the early exits
OpticalFlowCook(op, view) ==
    LET size == GraySize(view, op.scale)
        gray == [cols |-> size[1], rows |-> size[2], of |-> view.data]
    IN  IF ~FlowHasPrev(op, gray)
        THEN Ret(FlowFinish(op, view, gray, FlowBlankOutput(view)),
                 Wrote(Call("cooked", 1, TRUE, FALSE, FALSE), FlowWrites(op, FALSE)))
        ELSE
          \* calcOpticalFlowFarneback writes m_impl->flow
          LET withFlow == [op EXCEPT !.flow = gray]
              cooked   == Wrote(Call("cooked", 1, TRUE, FALSE, TRUE), FlowWrites(op, TRUE))
          IN  IF op.vizMode = 0
              THEN \* cv::merge({hue, sat, val}) requires planes of one size
                   IF SatSize(view, op.scale) # size
                   THEN Ret(withFlow,
                            Wrote(Call("threw", 0, TRUE, FALSE, TRUE),
                                  FlowWrites(op, TRUE) \ {"prevGray", "smallOutput"}))
                   ELSE Ret(FlowFinish(withFlow, view, gray,
                                       DrawnMat(view.width, view.height, "wheel", view.data)),
                            cooked)
              ELSE IF op.vizMode = 1
              THEN Ret(FlowFinish(withFlow, view, gray,
                                  DrawnMat(view.width, view.height, "arrows", view.data)),
                       cooked)
              ELSE Ret(FlowFinish(withFlow, view, gray,
                                  DrawnMat(view.width, view.height, "magnitude", view.data)),
                       cooked)

\* OpticalFlowProcess without the needsCook guard
OpticalFlowProcessNoGuard(op, input, view) ==
    IF ~input THEN Ret(didCook(op), Call("noInput", 1, FALSE, FALSE, FALSE))
    ELSE IF ~valid(view) THEN Ret(didCook(op), Call("invalidView", 1, FALSE, FALSE, FALSE))
    ELSE IF view.width < MinSize \/ view.height < MinSize
         THEN Ret(didCook(op), Call("tooSmall", 1, FALSE, FALSE, FALSE))
    ELSE OpticalFlowCook(op, view)

OpticalFlowProcess(op, input, view) ==
    IF ~needsCook(op) THEN Ret(op, Call("clean", 0, FALSE, FALSE, FALSE))
    ELSE IF ~input THEN Ret(didCook(op), Call("noInput", 1, FALSE, FALSE, FALSE))
    ELSE IF ~valid(view) THEN Ret(didCook(op), Call("invalidView", 1, FALSE, FALSE, FALSE))
    ELSE IF view.width < MinSize \/ view.height < MinSize
         THEN Ret(didCook(op), Call("tooSmall", 1, FALSE, FALSE, FALSE))
    ELSE OpticalFlowCook(op, view)

(***************************************************************************)
(* BlobTrack                                                               *)
(***************************************************************************)
BlobParams == {"minArea", "maxArea", "minCircularity", "minConvexity",
               "minInertia", "detectBright", "detectDark", "threshold"}

\* the declared defaults (ratios in hundredths)
BlobDefaults ==
    [minArea |-> 100, maxArea |-> 50000, minCircularity |-> 10, minConvexity |-> 50,
     minInertia |-> 10, detectBright |-> 1, detectDark |-> 1, threshold |-> 128]

\* one other value of each parameter, inside its declared range
BlobOthers ==
    [minArea |-> 200, maxArea |-> 1000, minCircularity |-> 0, minConvexity |-> 80,
     minInertia |-> 1, detectBright |-> 0, detectDark |-> 0, threshold |-> 200]

\* the lastXxx fields of Impl, all -1 after construction
BlobNoCache == [p \in BlobParams |-> NoCache]

\* params.minThreshold = threshold - 50; params.maxThreshold = threshold + 50
ThresholdWindow == 50
\* params.thresholdStep = 10
ThresholdStep == 10
\* params.blobColor = 255
BrightColor == 255

\* m_impl->keypoints: what detector `by` finds in the luminance of frame
\* `of`; nothing after keypoints.clear()
Keypoints(f, detector) == [of |-> f, by |-> detector]

NoKeypoints == Keypoints(0, NULL)

BlobTrackNew ==
    [dirty |-> TRUE,
     m_outputPixels |-> EmptyPixels, m_outputWidth |-> 0, m_outputHeight |-> 0,
     detector |-> NULL, keypoints |-> NoKeypoints,
     last |-> BlobNoCache, params |-> BlobDefaults]

BlobTrackCleanup(op) ==
    [op EXCEPT !.m_outputPixels = EmptyPixels, !.m_outputWidth = 0, !.m_outputHeight = 0,
               !.detector = NULL, !.keypoints = NoKeypoints]

\* paramsChanged without the threshold comparison
paramsChangedNoThreshold(op) ==
    \/ op.last.minArea # op.params.minArea
    \/ op.last.maxArea # op.params.maxArea
    \/ op.last.minCircularity # op.params.minCircularity
    \/ op.last.minConvexity # op.params.minConvexity
    \/ op.last.minInertia # op.params.minInertia
    \/ op.last.detectBright # op.params.detectBright
    \/ op.last.detectDark # op.params.detectDark

\* bool paramsChanged = lastMinArea != minArea || ... || lastThreshold != threshold
paramsChanged(op) ==
    \/ op.last.minArea # op.params.minArea
    \/ op.last.maxArea # op.params.maxArea
    \/ op.last.minCircularity # op.params.minCircularity
    \/ op.last.minConvexity # op.params.minConvexity
    \/ op.last.minInertia # op.params.minInertia
    \/ op.last.detectBright # op.params.detectBright
    \/ op.last.detectDark # op.params.detectDark
    \/ op.last.threshold # op.params.threshold

\* NeedsRebuild without the test of the detector pointer
NeedsRebuildNoPointerTest(op) == paramsChanged(op)

\* if (!m_impl->detector || paramsChanged)
NeedsRebuild(op) == op.detector = NULL \/ paramsChanged(op)

\* CreateDetector with the color filter left on when both flags are off
CreateDetectorOffFilters(p) ==
    [minThreshold |-> p.threshold - ThresholdWindow,
     maxThreshold |-> p.threshold + ThresholdWindow,
     thresholdStep |-> ThresholdStep,
     filterByArea |-> TRUE, minArea |-> p.minArea, maxArea |-> p.maxArea,
     filterByCircularity |-> p.minCircularity > 1, minCircularity |-> p.minCircularity,
     filterByConvexity |-> p.minConvexity > 1, minConvexity |-> p.minConvexity,
     filterByInertia |-> p.minInertia > 1, minInertiaRatio |-> p.minInertia,
     filterByColor |-> ~(p.detectBright = 1 /\ p.detectDark = 1),
     blobColor |-> IF p.detectBright = 1 /\ p.detectDark = 0 THEN BrightColor ELSE 0]

\* the type cv::threshold binarizes the luminance with
ThresholdType(p) ==
    IF p.detectBright # 0 /\ p.detectDark = 0 THEN "THRESH_BINARY"
    ELSE IF p.detectBright = 0 /\ p.detectDark # 0 THEN "THRESH_BINARY_INV"
    ELSE "THRESH_BINARY"

\* output after the drawing: the copy of frame `f`, the outlines of the
\* contours of the luminance binarized at `thresh` with `type` whose area is
\* in minArea..maxArea, and the marks of the keypoints
BlobsMat(width, height, f, p, keypoints) ==
    [cols |-> width, rows |-> height,
     px |-> [tag |-> "blobs", bgra |-> <<>>, of |-> f,
             binary |-> [type |-> ThresholdType(p), thresh |-> p.threshold],
             minA |-> p.minArea, maxA |-> p.maxArea, marks |-> keypoints]]

\* cv::SimpleBlobDetector::create(params), params filled from the parameters
CreateDetector(p) ==
    [minThreshold |-> p.threshold - ThresholdWindow,
     maxThreshold |-> p.threshold + ThresholdWindow,
     thresholdStep |-> ThresholdStep,
     filterByArea |-> TRUE, minArea |-> p.minArea, maxArea |-> p.maxArea,
     filterByCircularity |-> p.minCircularity > 1, minCircularity |-> p.minCircularity,
     filterByConvexity |-> p.minConvexity > 1, minConvexity |-> p.minConvexity,
     filterByInertia |-> p.minInertia > 1, minInertiaRatio |-> p.minInertia,
     filterByColor |-> (p.detectBright = 1) # (p.detectDark = 1),
     blobColor |-> IF p.detectBright = 1 /\ p.detectDark = 0 THEN BrightColor ELSE 0]

\* CacheParams that never stores the threshold
CacheParamsStale(op) ==
    [minArea |-> op.params.minArea, maxArea |-> op.params.maxArea,
     minCircularity |-> op.params.minCircularity, minConvexity |-> op.params.minConvexity,
     minInertia |-> op.params.minInertia, detectBright |-> op.params.detectBright,
     detectDark |-> op.params.detectDark, threshold |-> op.last.threshold]

\* the "Cache params" assignments
CacheParams(op) ==
    [minArea |-> op.params.minArea, maxArea |-> op.params.maxArea,
     minCircularity |-> op.params.minCircularity, minConvexity |-> op.params.minConvexity,
     minInertia |-> op.params.minInertia, detectBright |-> op.params.detectBright,
     detectDark |-> op.params.detectDark, threshold |-> op.params.threshold]

\* the rebuild block of BlobTrack::process
Rebuild(op) == [op EXCEPT !.detector = <<CreateDetector(op.params)>>, !.last = CacheParams(op)]

\* the matrices BlobTrack::process writes: cvtColor fills gray, input.copyTo
\* and drawKeypoints fill output, cv::threshold fills binary
BlobWrites == {"gray", "output", "binary"}

\* the part of BlobTrack::process after the early exits
BlobTrackCook(op, view) ==
    LET build == NeedsRebuild(op)
        ready == IF build THEN Rebuild(op) ELSE op
        found == Keypoints(view.data, ready.detector)
    IN  Ret(didCook([ready EXCEPT !.keypoints = found,
                                  !.m_outputWidth = view.width,
                                  !.m_outputHeight = view.height,
                                  !.m_outputPixels =
                                      AssignPixels(BlobsMat(view.width, view.height, view.data,
                                                            ready.params, found))]),
            Wrote(Call("cooked", 1, TRUE, build, FALSE), BlobWrites))

\* BlobTrackProcess with `&&` for `||` in the minimum-size test
BlobTrackProcessAndSize(op, input, view) ==
    IF ~needsCook(op) THEN Ret(op, Call("clean", 0, FALSE, FALSE, FALSE))
    ELSE IF ~input THEN Ret(didCook(op), Call("noInput", 1, FALSE, FALSE, FALSE))
    ELSE IF ~valid(view) THEN Ret(didCook(op), Call("invalidView", 1, FALSE, FALSE, FALSE))
    ELSE IF view.width < MinSize /\ view.height < MinSize
         THEN Ret(didCook(op), Call("tooSmall", 1, FALSE, FALSE, FALSE))
    ELSE BlobTrackCook(op, view)

BlobTrackProcess(op, input, view) ==
    IF ~needsCook(op) THEN Ret(op, Call("clean", 0, FALSE, FALSE, FALSE))
    ELSE IF ~input THEN Ret(didCook(op), Call("noInput", 1, FALSE, FALSE, FALSE))
    ELSE IF ~valid(view) THEN Ret(didCook(op), Call("invalidView", 1, FALSE, FALSE, FALSE))
    ELSE IF view.width < MinSize \/ view.height < MinSize
         THEN Ret(didCook(op), Call("tooSmall", 1, FALSE, FALSE, FALSE))
    ELSE BlobTrackCook(op, view)

(***************************************************************************)
(* The state machine                                                       *)
(***************************************************************************)
\* no TextureCodec call was made, nothing was converted
NoGpu == [pc |-> "idle"]

NoConv == [stage |-> "none"]

New(k) ==
    IF k = "Contours" THEN ContoursNew
    ELSE IF k = "OpticalFlow" THEN OpticalFlowNew
    ELSE BlobTrackNew

\* Operator::process, dispatched on the class of the object
Process(k, op, input, view) ==
    IF k = "Contours" THEN ContoursProcess(op, input, view)
    ELSE IF k = "OpticalFlow" THEN OpticalFlowProcess(op, input, view)
    ELSE BlobTrackProcess(op, input, view)

\* History kept for the statements below, not by the program:
\*   runs        how often the algorithm ran in the current run of consecutive
\*               process calls (no parameter, input or cleanup call between)
\*   cookParams  BlobTrack: the parameters of the last full cook since
\*               construction or cleanup
\*   cookSize    OpticalFlow: the input size of the last full cook
\*   cookWork    OpticalFlow: the working size of the last full cook
\*   resized     OpticalFlow: the last full cook's input size differed from
\*               that of the full cook before it
\*   reworked    the same for the working size
\*   lastCook    the input size of the last full cook since construction or
\*               cleanup
\*   recooked    the last full cook of OpticalFlow was the first one after a
\*               cleanup that followed a full cook
NoHist ==
    [runs |-> 0, cookParams |-> NULL, cookSize |-> NULL, cookWork |-> NULL,
     resized |-> FALSE, reworked |-> FALSE, lastCook |-> NULL, recooked |-> FALSE]

Init ==
    /\ kind \in Kinds
    /\ self = New(kind)
    /\ inputOp = FALSE
    /\ cpuView = InvalidView
    /\ call = NoCall
    /\ hist = NoHist
    /\ gpu = NoGpu
    /\ conv = NoConv

FullPaths == {"cooked", "threw"}

Ran(h, c) == IF c.ran THEN [h EXCEPT !.runs = @ + 1] ELSE h

\* the host stops calling process once the algorithm ran MaxRuns times in a row
ContoursProcessCall ==
    /\ kind = "Contours"
    /\ hist.runs < MaxRuns
    /\ LET r == ContoursProcess(self, inputOp, cpuView)
       IN  /\ self' = r.op
           /\ call' = r.call
           /\ cpuView' = Written(cpuView, r.call)
           /\ hist' = IF r.call.path \in FullPaths
                      THEN [Ran(hist, r.call) EXCEPT
                               !.lastCook = <<cpuView.width, cpuView.height>>]
                      ELSE hist
    /\ UNCHANGED <<kind, inputOp, gpu, conv>>

OpticalFlowProcessCall ==
    /\ kind = "OpticalFlow"
    /\ hist.runs < MaxRuns
    /\ LET r    == OpticalFlowProcess(self, inputOp, cpuView)
           size == <<cpuView.width, cpuView.height>>
           work == GraySize(cpuView, self.scale)
       IN  /\ self' = r.op
           /\ call' = r.call
           /\ cpuView' = Written(cpuView, r.call)
           /\ hist' = IF r.call.path \in FullPaths
                      THEN [Ran(hist, r.call) EXCEPT
                               !.lastCook = size,
                               !.recooked = hist.lastCook = NULL /\ hist.cookSize # NULL,
                               !.cookSize = size,
                               !.cookWork = work,
                               !.resized  = hist.cookSize # NULL /\ hist.cookSize # size,
                               !.reworked = hist.cookWork # NULL /\ hist.cookWork # work]
                      ELSE hist
    /\ UNCHANGED <<kind, inputOp, gpu, conv>>

BlobTrackProcessCall ==
    /\ kind = "BlobTrack"
    /\ hist.runs < MaxRuns
    /\ LET r == BlobTrackProcess(self, inputOp, cpuView)
       IN  /\ self' = r.op
           /\ call' = r.call
           /\ cpuView' = Written(cpuView, r.call)
           /\ hist' = IF r.call.path \in FullPaths
                      THEN [Ran(hist, r.call) EXCEPT
                               !.cookParams = <<self.params>>,
                               !.lastCook = <<cpuView.width, cpuView.height>>]
                      ELSE hist
    /\ UNCHANGED <<kind, inputOp, gpu, conv>>

\* any other call ends the run of consecutive process calls
Interrupt(h) == [h EXCEPT !.runs = 0]

\* cleanup also ends the history of full cooks
Cleaned(h) == [Interrupt(h) EXCEPT !.lastCook = NULL]

ContoursCleanupCall ==
    /\ kind = "Contours"
    /\ self' = ContoursCleanup(self)
    /\ call' = NoCall
    /\ hist' = Cleaned(hist)
    /\ UNCHANGED <<kind, inputOp, cpuView, gpu, conv>>

OpticalFlowCleanupCall ==
    /\ kind = "OpticalFlow"
    /\ self' = OpticalFlowCleanup(self)
    /\ call' = NoCall
    /\ hist' = Cleaned(hist)
    /\ UNCHANGED <<kind, inputOp, cpuView, gpu, conv>>

BlobTrackCleanupCall ==
    /\ kind = "BlobTrack"
    /\ self' = BlobTrackCleanup(self)
    /\ call' = NoCall
    /\ hist' = [Cleaned(hist) EXCEPT !.cookParams = NULL]
    /\ UNCHANGED <<kind, inputOp, cpuView, gpu, conv>>

\* the host connects an upstream operator, which exposes some view
Connect ==
    /\ ~inputOp
    /\ inputOp' = TRUE
    /\ cpuView' \in ViewsFor(kind)
    /\ self' = markDirty(self)
    /\ call' = NoCall
    /\ hist' = Interrupt(hist)
    /\ UNCHANGED <<kind, gpu, conv>>

Disconnect ==
    /\ inputOp
    /\ inputOp' = FALSE
    /\ cpuView' = InvalidView
    /\ self' = markDirty(self)
    /\ call' = NoCall
    /\ hist' = Interrupt(hist)
    /\ UNCHANGED <<kind, gpu, conv>>

\* the upstream operator produces a new frame
NewFrame ==
    /\ inputOp
    /\ cpuView' \in ViewsFor(kind)
    /\ self' = markDirty(self)
    /\ call' = NoCall
    /\ hist' = Interrupt(hist)
    /\ UNCHANGED <<kind, inputOp, gpu, conv>>

SetContoursMode ==
    /\ kind = "Contours"
    /\ \E m \in ContourModes : self' = markDirty([self EXCEPT !.mode = m])
    /\ call' = NoCall
    /\ hist' = Interrupt(hist)
    /\ UNCHANGED <<kind, inputOp, cpuView, gpu, conv>>

SetThresholds ==
    /\ kind = "Contours"
    /\ \E t \in ThresholdPairs :
          self' = markDirty([self EXCEPT !.threshold1 = t[1], !.threshold2 = t[2]])
    /\ call' = NoCall
    /\ hist' = Interrupt(hist)
    /\ UNCHANGED <<kind, inputOp, cpuView, gpu, conv>>

SetScale ==
    /\ kind = "OpticalFlow"
    /\ \E v \in ScaleValues : self' = markDirty([self EXCEPT !.scale = v])
    /\ call' = NoCall
    /\ hist' = Interrupt(hist)
    /\ UNCHANGED <<kind, inputOp, cpuView, gpu, conv>>

SetVizMode ==
    /\ kind = "OpticalFlow"
    /\ \E m \in VizModes : self' = markDirty([self EXCEPT !.vizMode = m])
    /\ call' = NoCall
    /\ hist' = Interrupt(hist)
    /\ UNCHANGED <<kind, inputOp, cpuView, gpu, conv>>

NonDefault(params) == {p \in BlobParams : params[p] # BlobDefaults[p]}

\* the host keeps at most MaxNonDefault parameters away from their default,
\* or turns exactly the two polarity flags off
Settable(params) ==
    \/ Cardinality(NonDefault(params)) <= MaxNonDefault
    \/ NonDefault(params) = {"detectBright", "detectDark"}

SetBlobParam ==
    /\ kind = "BlobTrack"
    /\ \E p \in BlobParams : \E v \in {BlobDefaults[p], BlobOthers[p]} :
          LET params == [self.params EXCEPT ![p] = v]
          IN  /\ Settable(params)
              /\ self' = markDirty([self EXCEPT !.params = params])
    /\ call' = NoCall
    /\ hist' = Interrupt(hist)
    /\ UNCHANGED <<kind, inputOp, cpuView, gpu, conv>>

Next ==
    \/ ContoursProcessCall \/ OpticalFlowProcessCall \/ BlobTrackProcessCall
    \/ ContoursCleanupCall \/ OpticalFlowCleanupCall \/ BlobTrackCleanupCall
    \/ Connect \/ Disconnect \/ NewFrame
    \/ SetContoursMode \/ SetThresholds \/ SetScale \/ SetVizMode \/ SetBlobParam

Spec == Init /\ [][Next]_vars

(***************************************************************************)
(* TextureCodec: the pixel conversions                                     *)
(*                                                                         *)
(* A half is its 16-bit pattern, a single-precision float (never negative  *)
(* here) its 32-bit pattern.  The powers of the two transfer functions     *)
(* are tabulated: the tables hold what the lambdas of texture_converter.cpp *)
(* return in IEEE single precision.  Everything else is computed.          *)
(***************************************************************************)
\* the pattern of v / 255.0f, for the 8-bit values v = 0..255 (entry v + 1)
UnormBits ==
    << 0, 998277249, 1006665857, 1010876609, 1015054465, 1017159841, 1019265217,
       1021370593, 1023443073, 1024495761, 1025548449, 1026601137, 1027653825,
       1028706513, 1029759201, 1030811889, 1031831681, 1032358025, 1032884369,
       1033410713, 1033937057, 1034463401, 1034989745, 1035516089, 1036042433,
       1036568777, 1037095121, 1037621465, 1038147809, 1038674153, 1039200497,
       1039726841, 1040220289, 1040483461, 1040746633, 1041009805, 1041272977,
       1041536149, 1041799321, 1042062493, 1042325665, 1042588837, 1042852009,
       1043115181, 1043378353, 1043641525, 1043904697, 1044167869, 1044431041,
       1044694213, 1044957385, 1045220557, 1045483729, 1045746901, 1046010073,
       1046273245, 1046536417, 1046799589, 1047062761, 1047325933, 1047589105,
       1047852277, 1048115449, 1048378621, 1048608897, 1048740483, 1048872069,
       1049003655, 1049135241, 1049266827, 1049398413, 1049529999, 1049661585,
       1049793171, 1049924757, 1050056343, 1050187929, 1050319515, 1050451101,
       1050582687, 1050714273, 1050845859, 1050977445, 1051109031, 1051240617,
       1051372203, 1051503789, 1051635375, 1051766961, 1051898547, 1052030133,
       1052161719, 1052293305, 1052424891, 1052556477, 1052688063, 1052819649,
       1052951235, 1053082821, 1053214407, 1053345993, 1053477579, 1053609165,
       1053740751, 1053872337, 1054003923, 1054135509, 1054267095, 1054398681,
       1054530267, 1054661853, 1054793439, 1054925025, 1055056611, 1055188197,
       1055319783, 1055451369, 1055582955, 1055714541, 1055846127, 1055977713,
       1056109299, 1056240885, 1056372471, 1056504057, 1056635643, 1056767229,
       1056898815, 1056997505, 1057063298, 1057129091, 1057194884, 1057260677,
       1057326470, 1057392263, 1057458056, 1057523849, 1057589642, 1057655435,
       1057721228, 1057787021, 1057852814, 1057918607, 1057984400, 1058050193,
       1058115986, 1058181779, 1058247572, 1058313365, 1058379158, 1058444951,
       1058510744, 1058576537, 1058642330, 1058708123, 1058773916, 1058839709,
       1058905502, 1058971295, 1059037088, 1059102881, 1059168674, 1059234467,
       1059300260, 1059366053, 1059431846, 1059497639, 1059563432, 1059629225,
       1059695018, 1059760811, 1059826604, 1059892397, 1059958190, 1060023983,
       1060089776, 1060155569, 1060221362, 1060287155, 1060352948, 1060418741,
       1060484534, 1060550327, 1060616120, 1060681913, 1060747706, 1060813499,
       1060879292, 1060945085, 1061010878, 1061076671, 1061142464, 1061208257,
       1061274050, 1061339843, 1061405636, 1061471429, 1061537222, 1061603015,
       1061668808, 1061734601, 1061800394, 1061866187, 1061931980, 1061997773,
       1062063566, 1062129359, 1062195152, 1062260945, 1062326738, 1062392531,
       1062458324, 1062524117, 1062589910, 1062655703, 1062721496, 1062787289,
       1062853082, 1062918875, 1062984668, 1063050461, 1063116254, 1063182047,
       1063247840, 1063313633, 1063379426, 1063445219, 1063511012, 1063576805,
       1063642598, 1063708391, 1063774184, 1063839977, 1063905770, 1063971563,
       1064037356, 1064103149, 1064168942, 1064234735, 1064300528, 1064366321,
       1064432114, 1064497907, 1064563700, 1064629493, 1064695286, 1064761079,
       1064826872, 1064892665, 1064958458, 1065024251, 1065090044, 1065155837,
       1065221630, 1065287423, 1065353216 >>

\* the pattern of srgbToLinear(v / 255.0f), for v = 0..255 (entry v + 1)
SrgbToLinearBits ==
    << 0, 966730420, 975119028, 980333582, 983507636, 986114913, 988722190,
       990592605, 991896244, 993199883, 994503521, 995840397, 997257613,
       998498758, 999286294, 1000114173, 1000982967, 1001893231, 1002845513,
       1003840353, 1004878273, 1005959792, 1006859189, 1007444306, 1008051971,
       1008682430, 1009335915, 1010012663, 1010712905, 1011436867, 1012184775,
       1012956849, 1013753311, 1014574370, 1015220904, 1015656351, 1016104411,
       1016565189, 1017038786, 1017525299, 1018024829, 1018537473, 1019063328,
       1019602489, 1020155051, 1020721109, 1021300752, 1021894073, 1022501164,
       1023122113, 1023583593, 1023908060, 1024239590, 1024578223, 1024924003,
       1025276974, 1025637180, 1026004658, 1026379451, 1026761600, 1027151147,
       1027548131, 1027952593, 1028364572, 1028784111, 1029211242, 1029646007,
       1030088446, 1030538596, 1030996495, 1031462185, 1031867239, 1032107925,
       1032352560, 1032601162, 1032853750, 1033110341, 1033370954, 1033635606,
       1033904315, 1034177099, 1034453975, 1034734960, 1035020072, 1035309330,
       1035602747, 1035900341, 1036202130, 1036508130, 1036818358, 1037132831,
       1037451564, 1037774575, 1038101879, 1038433493, 1038769433, 1039109714,
       1039454353, 1039803368, 1040156769, 1040350983, 1040532096, 1040715427,
       1040900984, 1041088773, 1041278804, 1041471083, 1041665618, 1041862416,
       1042061485, 1042262832, 1042466467, 1042672393, 1042880620, 1043091152,
       1043304001, 1043519172, 1043736673, 1043956510, 1044178691, 1044403222,
       1044630111, 1044859364, 1045090990, 1045324994, 1045561383, 1045800166,
       1046041347, 1046284939, 1046530940, 1046779360, 1047030207, 1047283488,
       1047539212, 1047797380, 1048058000, 1048321080, 1048581314, 1048715324,
       1048850573, 1048987066, 1049124805, 1049263794, 1049404035, 1049545533,
       1049688289, 1049832308, 1049977592, 1050124145, 1050271970, 1050421070,
       1050571447, 1050723106, 1050876050, 1051030280, 1051185801, 1051342616,
       1051500727, 1051660137, 1051820851, 1051982872, 1052146200, 1052310839,
       1052476793, 1052644065, 1052812657, 1052982573, 1053153815, 1053326387,
       1053500291, 1053675531, 1053852109, 1054030028, 1054209291, 1054389901,
       1054571860, 1054755173, 1054939841, 1055125867, 1055313255, 1055502006,
       1055692125, 1055883613, 1056076474, 1056270710, 1056466324, 1056663319,
       1056861698, 1057013037, 1057113614, 1057214887, 1057316857, 1057419526,
       1057522895, 1057626966, 1057731739, 1057837216, 1057943399, 1058050289,
       1058157886, 1058266193, 1058375211, 1058484941, 1058595385, 1058706543,
       1058818417, 1058931009, 1059044319, 1059158350, 1059273102, 1059388576,
       1059504774, 1059621697, 1059739347, 1059857725, 1059976832, 1060096670,
       1060217239, 1060338540, 1060460576, 1060583347, 1060706854, 1060831100,
       1060956085, 1061081810, 1061208276, 1061335486, 1061463440, 1061592139,
       1061721585, 1061851778, 1061982721, 1062114414, 1062246859, 1062380056,
       1062514007, 1062648714, 1062784176, 1062920397, 1063057376, 1063195116,
       1063333614, 1063472879, 1063612905, 1063753699, 1063895254, 1064037581,
       1064180671, 1064324536, 1064469167, 1064614574, 1064760750, 1064907705,
       1065055430, 1065203936, 1065353216 >>

\* entry k, for k = 1..255: the least half h of sign 0 with
\* static_cast<uint8_t>(linearToSrgb(halfToFloat(h)) * 255.0f + 0.5f) >= k;
\* the expression never decreases as h runs over the halves of sign 0
LinearToSrgbSteps ==
    << 2298, 3958, 4664, 5210, 5529, 5847, 6155, 6314, 6473, 6632, 6792, 6960,
       7138, 7247, 7346, 7449, 7558, 7671, 7790, 7914, 8044, 8178, 8255, 8328,
       8404, 8482, 8563, 8647, 8734, 8824, 8917, 9013, 9111, 9213, 9267, 9321,
       9377, 9434, 9492, 9552, 9614, 9678, 9743, 9809, 9877, 9947, 10019, 10092,
       10167, 10242, 10281, 10321, 10362, 10404, 10447, 10490, 10535, 10580,
       10626, 10673, 10721, 10770, 10820, 10871, 10922, 10975, 11029, 11083,
       11138, 11195, 11252, 11287, 11317, 11347, 11378, 11409, 11440, 11473,
       11505, 11538, 11572, 11606, 11640, 11675, 11711, 11747, 11784, 11821,
       11858, 11896, 11935, 11974, 12014, 12054, 12095, 12136, 12178, 12220,
       12263, 12298, 12319, 12342, 12364, 12387, 12410, 12433, 12457, 12481,
       12505, 12530, 12554, 12579, 12605, 12630, 12656, 12682, 12708, 12735,
       12762, 12789, 12817, 12845, 12873, 12901, 12930, 12959, 12988, 13018,
       13048, 13078, 13108, 13139, 13170, 13202, 13233, 13265, 13298, 13321,
       13338, 13354, 13371, 13388, 13405, 13422, 13440, 13457, 13475, 13493,
       13510, 13529, 13547, 13565, 13584, 13603, 13622, 13641, 13660, 13679,
       13699, 13718, 13738, 13758, 13779, 13799, 13819, 13840, 13861, 13882,
       13903, 13924, 13946, 13967, 13989, 14011, 14033, 14056, 14078, 14101,
       14123, 14146, 14170, 14193, 14216, 14240, 14264, 14288, 14312, 14336,
       14349, 14361, 14373, 14386, 14398, 14411, 14424, 14437, 14449, 14462,
       14476, 14489, 14502, 14515, 14529, 14542, 14556, 14570, 14583, 14597,
       14611, 14625, 14639, 14654, 14668, 14682, 14697, 14712, 14726, 14741,
       14756, 14771, 14786, 14801, 14816, 14831, 14847, 14862, 14878, 14894,
       14909, 14925, 14941, 14957, 14973, 14989, 15006, 15022, 15039, 15055,
       15072, 15089, 15106, 15122, 15140, 15157, 15174, 15191, 15209, 15226,
       15244, 15261, 15279, 15297, 15315, 15333, 15351 >>

\* the pattern of 65504.0f
MaxHalfBits == 1199562752

Bytes == 0..255

\* floatToHalf with the exponent rebiased by 14
floatToHalfBias14(bits) ==
    LET f    == IF bits > MaxHalfBits THEN MaxHalfBits ELSE bits
        exp  == ((f \div 2^23) % 256) - 127 + 14
        mant == f % 2^23
    IN  IF exp <= 0 THEN 0
        ELSE IF exp >= 31 THEN 31 * 1024
        ELSE exp * 1024 + (mant \div 2^13)

\* floatToHalf with the exponent rebiased by 16
floatToHalfBias16(bits) ==
    LET f    == IF bits > MaxHalfBits THEN MaxHalfBits ELSE bits
        exp  == ((f \div 2^23) % 256) - 127 + 16
        mant == f % 2^23
    IN  IF exp <= 0 THEN 0
        ELSE IF exp >= 31 THEN 31 * 1024
        ELSE exp * 1024 + (mant \div 2^13)

\* the float -> half lambda of matToTexture, on a float of sign 0
floatToHalf(bits) ==
    LET f    == IF bits > MaxHalfBits THEN MaxHalfBits ELSE bits
        exp  == ((f \div 2^23) % 256) - 127 + 15
        mant == f % 2^23
    IN  IF exp <= 0 THEN 0
        ELSE IF exp >= 31 THEN 31 * 1024
        ELSE exp * 1024 + (mant \div 2^13)

\* the half -> float lambda of textureToMat: the float is
\* (1 + mant / 1024) * 2^exp when its class is "normal"
halfToFloat(h) ==
    LET sign == (h \div 2^15) % 2
        exp  == (h \div 2^10) % 32
        mant == h % 2^10
    IN  IF exp = 0 THEN [sign |-> sign, class |-> "zero", exp |-> 0, mant |-> 0]
        ELSE IF exp = 31 THEN [sign |-> sign, class |-> "inf", exp |-> 0, mant |-> 0]
        ELSE [sign |-> sign, class |-> "normal", exp |-> exp - 15, mant |-> mant]

\* static_cast<uint8_t>(linearToSrgb(halfToFloat(h)) * 255.0f + 0.5f):
\* linearToSrgb clamps to [0, 1] first, so a negative value gives 0
ColorTo8(h) ==
    LET f == halfToFloat(h)
    IN  IF f.sign = 1 \/ f.class = "zero" THEN 0
        ELSE Cardinality({k \in 1..255 : LinearToSrgbSteps[k] <= h})

\* static_cast<uint8_t>(std::min(255.0f, std::max(0.0f, a * 255.0f))) with
\* a = halfToFloat(h); the product is exact in single precision
AlphaTo8(h) ==
    LET f == halfToFloat(h)
    IN  IF f.sign = 1 \/ f.class = "zero" THEN 0
        ELSE IF f.class = "inf" \/ f.exp >= 0 THEN 255
        ELSE ((1024 + f.mant) * 255) \div 2^(10 - f.exp)

\* one pixel of the loop of matToTexture: BGRA bytes to RGBA halves
EncodePixel(px) ==
    << floatToHalf(SrgbToLinearBits[px[3] + 1]),
       floatToHalf(SrgbToLinearBits[px[2] + 1]),
       floatToHalf(SrgbToLinearBits[px[1] + 1]),
       floatToHalf(UnormBits[px[4] + 1]) >>

\* one pixel of the loop of textureToMat: RGBA halves to BGRA bytes
DecodePixel(texel) ==
    << ColorTo8(texel[3]), ColorTo8(texel[2]), ColorTo8(texel[1]), AlphaTo8(texel[4]) >>

\* 256 bytes, the row alignment of a buffer-texture copy
RowAlign == 256

\* BytesPerRow with the padding added and the low bits left in place
BytesPerRowUnmasked(width, bytesPerPixel) == width * bytesPerPixel + (RowAlign - 1)

\* uint32_t bytesPerRow = ((width * bytesPerPixel) + 255) & ~255; the 32-bit
\* sum does not wrap for a width below 2^29 - 31
BytesPerRow(width, bytesPerPixel) ==
    LET sum == width * bytesPerPixel + (RowAlign - 1)
    IN  sum - (sum % RowAlign)

(***************************************************************************)
(* The conversions, one value at a time                                    *)
(***************************************************************************)
\* row widths up to this many pixels are converted
MaxWidth == 70

\* a BGRA pixel for every byte v: each channel takes every value once
PixelOf(v) == << v, (v + 85) % 256, 255 - v, (v + 170) % 256 >>

\* a CV_8UC4 pixel enters matToTexture
TakePixel ==
    /\ conv.stage \in {"none", "back", "row"}
    /\ \E v \in Bytes : conv' = [stage |-> "mat", px |-> PixelOf(v)]
    /\ UNCHANGED <<kind, self, inputOp, cpuView, call, hist, gpu>>

\* matToTexture converts it
EncodeIt ==
    /\ conv.stage = "mat"
    /\ conv' = [stage |-> "texel", px |-> conv.px, texel |-> EncodePixel(conv.px)]
    /\ UNCHANGED <<kind, self, inputOp, cpuView, call, hist, gpu>>

\* textureToMat converts the texel back
DecodeIt ==
    /\ conv.stage = "texel"
    /\ conv' = [stage |-> "back", px |-> conv.px, texel |-> conv.texel,
                out |-> DecodePixel(conv.texel)]
    /\ UNCHANGED <<kind, self, inputOp, cpuView, call, hist, gpu>>

\* the row stride of a texture of some width: 8 bytes per pixel in the codec,
\* 4 in the operators' own upload
TakeRow ==
    /\ conv.stage \in {"none", "back", "row"}
    /\ \E width \in 1..MaxWidth : \E bytesPerPixel \in {4, 8} :
          conv' = [stage |-> "row", width |-> width, bytesPerPixel |-> bytesPerPixel,
                   bytesPerRow |-> BytesPerRow(width, bytesPerPixel)]
    /\ UNCHANGED <<kind, self, inputOp, cpuView, call, hist, gpu>>

InitConvert ==
    /\ kind = "Contours"
    /\ self = New(kind)
    /\ inputOp = FALSE
    /\ cpuView = InvalidView
    /\ call = NoCall
    /\ hist = NoHist
    /\ gpu = NoGpu
    /\ conv = NoConv

NextConvert == TakePixel \/ EncodeIt \/ DecodeIt \/ TakeRow

SpecConvert == InitConvert /\ [][NextConvert]_vars

(***************************************************************************)
(* TextureCodec: the two calls                                             *)
(*                                                                         *)
(* textureToMat submits a copy, then waits twice by polling the device:    *)
(* for the submitted work, and for the buffer map.  The completion of      *)
(* either is signalled by a callback that the device may run at any time   *)
(* after its registration.  matToTexture runs to its end in one step.      *)
(***************************************************************************)
\* int workTimeout = 1000; int timeout = 1000;
PollBudget == 1000

\* textures of these sizes exist
TextureSizes == {<<1, 1>>, <<2, 2>>}

\* the images handed to matToTexture start from these bytes
ImageSeeds == {0, 200}

\* an empty cv::Mat: `return cv::Mat();`
NoImage == [cols |-> 0, rows |-> 0, type |-> "CV_8UC1", data |-> <<>>]

\* a CV_8UC4 image of distinct pixels
ImageOf(width, height, v) ==
    [cols |-> width, rows |-> height, type |-> "CV_8UC4",
     data |-> [i \in 1..(width * height) |-> PixelOf((v + 7 * i) % 256)]]

\* the same pixels in three channels
Image3Of(width, height, v) == [ImageOf(width, height, v) EXCEPT !.type = "CV_8UC3"]

\* cv::Mat::empty()
empty(mat) == mat.cols * mat.rows = 0

\* a texture as the host creates it: every texel zero
ZeroTexture(width, height) ==
    [width |-> width, height |-> height,
     texels |-> [i \in 1..(width * height) |-> <<0, 0, 0, 0>>]]

\* what a call returned: the function, the return statement taken, the image
\* returned, the number of texture writes issued, whether a message was printed
Return(fn, path, result, writes, message) ==
    [fn |-> fn, path |-> path, result |-> result, writes |-> writes, message |-> message]

NoReturn == Return("none", "none", NoImage, 0, FALSE)

\* no call is running; the host holds texture `tex`.  `pending` are the
\* callbacks registered by the running call that have not run, `stale` those
\* registered by calls that have returned; `buffer` is the state of the
\* readback buffer and `trace` the steps the last call took with it
CodecIdle(tex, ret) ==
    [pc |-> "idle", tex |-> tex, args |-> [texture |-> FALSE, width |-> 0, height |-> 0],
     timeout |-> 0, done |-> FALSE, status |-> "Unknown", polls |-> 0, ret |-> ret,
     pending |-> {}, stale |-> {}, buffer |-> "none", trace |-> <<>>]

\* the host goes on with texture `tex`; the callbacks the device still holds
\* stay registered
HostIdle(g, tex, ret) == [CodecIdle(tex, ret) EXCEPT !.stale = g.stale]

\* a step of textureToMat on the readback buffer
Step(g, step) == [g EXCEPT !.trace = Append(@, step)]

\* wgpuBufferRelease(readbackBuffer)
Released(g) == [Step(g, "release") EXCEPT !.buffer = "released"]

\* wgpuBufferUnmap(readbackBuffer)
Unmapped(g) == [Step(g, "unmap") EXCEPT !.buffer = IF @ = "mapped" THEN "live" ELSE @]

\* a return of textureToMat: workCtx and mapCtx, locals of the call, end here;
\* nothing takes back a callback that was registered with their addresses
Leave(g, ret) ==
    [g EXCEPT !.pc = "idle", !.timeout = 0, !.done = FALSE, !.ret = ret,
              !.stale = @ \cup g.pending, !.pending = {}]

\* every failure return of textureToMat: `return cv::Mat();`
Fail(g, path) == Leave(g, Return("textureToMat", path, NoImage, 0, FALSE))

\* textureToMat up to the first polling loop; `buffer` is whether
\* wgpuDeviceCreateBuffer returned a buffer
TextureToMatEnter(g, texture, width, height, buffer) ==
    LET h == [HostIdle(g, g.tex, NoReturn)
                 EXCEPT !.args = [texture |-> texture, width |-> width, height |-> height]]
    IN  IF ~texture \/ width <= 0 \/ height <= 0 THEN Fail(h, "badArgs")
        ELSE IF ~buffer THEN Fail(h, "noBuffer")
        ELSE [Step(h, "submit")
                 EXCEPT !.pc = "waitWork", !.timeout = PollBudget, !.buffer = "live",
                        !.pending = {"work"}]

\* PollOnce without the countdown
PollOnceNoCountdown(g) == [g EXCEPT !.polls = @ + 1]

\* one iteration of a polling loop: the test decrements the budget, the body
\* polls the device and sleeps
PollOnce(g) == [g EXCEPT !.timeout = @ - 1, !.polls = @ + 1]

\* the test of a polling loop fails: `!done && timeout-- > 0`
LoopEnd(g, next) ==
    IF g.done THEN [g EXCEPT !.pc = next]
    ELSE [g EXCEPT !.pc = next, !.timeout = @ - 1]

\* WorkCheck that returns from the timeout with the buffer still held
WorkCheckLeaks(g) ==
    IF ~g.done THEN Fail(g, "workTimeout")
    ELSE [Step(Step(g, "workDone"), "mapAsync")
             EXCEPT !.pc = "waitMap", !.timeout = PollBudget, !.done = FALSE,
                    !.status = "Unknown", !.polls = 0, !.pending = @ \cup {"map"}]

\* WorkCheck that asks for the map whether or not the work was seen done
WorkCheckMapsAnyway(g) ==
    [Step(g, "mapAsync")
        EXCEPT !.pc = "waitMap", !.timeout = PollBudget, !.done = FALSE,
               !.status = "Unknown", !.polls = 0, !.pending = @ \cup {"map"}]

\* `if (!workCtx.done)` and, past it, wgpuBufferMapAsync
WorkCheck(g) ==
    IF ~g.done THEN Fail(Released(g), "workTimeout")
    ELSE [Step(Step(g, "workDone"), "mapAsync")
             EXCEPT !.pc = "waitMap", !.timeout = PollBudget, !.done = FALSE,
                    !.status = "Unknown", !.polls = 0, !.pending = @ \cup {"map"}]

\* the conversion loops of textureToMat over the mapped rows
ReadBack(g) ==
    [cols |-> g.args.width, rows |-> g.args.height, type |-> "CV_8UC4",
     data |-> [i \in 1..(g.args.width * g.args.height) |-> DecodePixel(g.tex.texels[i])]]

\* MapCheck that tests only whether the map completed
MapCheckAnyStatus(g, range) ==
    IF ~g.done THEN Fail(Released(g), "mapTimeout")
    ELSE IF ~range THEN Fail(Released(Unmapped(Step(g, "read"))), "noRange")
    ELSE Leave([Released(Unmapped(Step(g, "read"))) EXCEPT !.polls = 0],
               Return("textureToMat", "ok", ReadBack(g), 0, FALSE))

\* `if (!mapCtx.done || mapCtx.status != Success)` and the rest of
\* textureToMat; `range` is whether wgpuBufferGetConstMappedRange returned data
MapCheck(g, range) ==
    IF ~g.done THEN Fail(Released(g), "mapTimeout")
    ELSE IF g.status # "Success" THEN Fail(Released(g), "mapFailed")
    ELSE IF ~range THEN Fail(Released(Unmapped(Step(Step(g, "mapSuccess"), "read"))), "noRange")
    ELSE Leave([Released(Unmapped(Step(Step(g, "mapSuccess"), "read"))) EXCEPT !.polls = 0],
               Return("textureToMat", "ok", ReadBack(g), 0, FALSE))

\* MatToTexture that uploads whatever type the image has
MatToTextureAnyType(g, mat, texture) ==
    IF empty(mat) \/ ~texture
    THEN HostIdle(g, g.tex, Return("matToTexture", "nothing", NoImage, 0, FALSE))
    ELSE HostIdle(g, [width |-> mat.cols, height |-> mat.rows,
                       texels |-> [i \in 1..(mat.cols * mat.rows) |-> EncodePixel(mat.data[i])]],
                  Return("matToTexture", "written", NoImage, 1, FALSE))

\* matToTexture; the texture has the size of the image
MatToTexture(g, mat, texture) ==
    IF empty(mat) \/ ~texture
    THEN HostIdle(g, g.tex, Return("matToTexture", "nothing", NoImage, 0, FALSE))
    ELSE IF mat.type # "CV_8UC4"
    THEN HostIdle(g, g.tex, Return("matToTexture", "badType", NoImage, 0, TRUE))
    ELSE HostIdle(g, [width |-> mat.cols, height |-> mat.rows,
                       texels |-> [i \in 1..(mat.cols * mat.rows) |-> EncodePixel(mat.data[i])]],
                  Return("matToTexture", "written", NoImage, 1, FALSE))

(***************************************************************************)
(* The codec calls as a state machine                                      *)
(***************************************************************************)
InitCodec ==
    /\ kind = "Contours"
    /\ self = New(kind)
    /\ inputOp = FALSE
    /\ cpuView = InvalidView
    /\ call = NoCall
    /\ hist = NoHist
    /\ conv = NoConv
    /\ gpu = CodecIdle(ZeroTexture(1, 1), NoReturn)

\* the host creates the texture anew, in some size
CreateTexture ==
    /\ gpu.pc = "idle"
    /\ \E size \in TextureSizes : gpu' = HostIdle(gpu, ZeroTexture(size[1], size[2]), NoReturn)
    /\ UNCHANGED <<kind, self, inputOp, cpuView, call, hist, conv>>

\* the images a caller hands to matToTexture for the texture it holds
ImagesFor(tex) ==
    {NoImage} \cup {ImageOf(tex.width, tex.height, v) : v \in ImageSeeds}
              \cup {Image3Of(tex.width, tex.height, v) : v \in ImageSeeds}

MatToTextureCall ==
    /\ gpu.pc = "idle"
    /\ \E mat \in ImagesFor(gpu.tex) : \E texture \in BOOLEAN :
          gpu' = [MatToTexture(gpu, mat, texture)
                     EXCEPT !.args = [texture |-> texture, width |-> mat.cols,
                                      height |-> mat.rows, type |-> mat.type]]
    /\ UNCHANGED <<kind, self, inputOp, cpuView, call, hist, conv>>

\* the sizes a caller passes with the texture it holds
SizesFor(tex) == {<<tex.width, tex.height>>, <<0, tex.height>>, <<tex.width, -1>>}

TextureToMatCall ==
    /\ gpu.pc = "idle"
    /\ \E texture \in BOOLEAN : \E size \in SizesFor(gpu.tex) : \E buffer \in BOOLEAN :
          gpu' = TextureToMatEnter(gpu, texture, size[1], size[2], buffer)
    /\ UNCHANGED <<kind, self, inputOp, cpuView, call, hist, conv>>

\* the work-done callback of the running call runs: ctx->done = true.  The
\* flag the model keeps is workCtx.done up to the test after the first loop
\* and mapCtx.done from there on
WorkDoneCallback ==
    /\ "work" \in gpu.pending
    /\ gpu' = [gpu EXCEPT !.pending = @ \ {"work"},
                          !.done = IF gpu.pc \in {"waitWork", "workCheck"} THEN TRUE ELSE @]
    /\ UNCHANGED <<kind, self, inputOp, cpuView, call, hist, conv>>

\* the map callback of the running call runs: ctx->status = status;
\* ctx->done = true.  The buffer is mapped when the status is Success
MapCallback ==
    /\ "map" \in gpu.pending
    /\ \E status \in {"Success", "Error"} :
          gpu' = [gpu EXCEPT !.pending = @ \ {"map"}, !.done = TRUE, !.status = status,
                             !.buffer = IF status = "Success" THEN "mapped" ELSE @]
    /\ UNCHANGED <<kind, self, inputOp, cpuView, call, hist, conv>>

\* what the write of a callback does whose context has ended with its call:
\* it goes to the stack where the context was.  It is lost there, or (`hit`) a
\* later call has its own context of that kind in this place and sees the
\* flag set.  The map of a buffer that was released does not succeed
DanglingWrite(g, callback, hit) ==
    IF hit /\ callback = "work" /\ g.pc \in {"waitWork", "workCheck"}
    THEN [g EXCEPT !.done = TRUE]
    ELSE IF hit /\ callback = "map" /\ g.pc \in {"waitMap", "mapCheck"}
    THEN [g EXCEPT !.done = TRUE, !.status = "Error"]
    ELSE g

\* the device runs a callback of a call that has returned
LateCallback ==
    /\ gpu.stale # {}
    /\ \E callback \in gpu.stale : \E hit \in BOOLEAN :
          gpu' = DanglingWrite([gpu EXCEPT !.stale = @ \ {callback}], callback, hit)
    /\ UNCHANGED <<kind, self, inputOp, cpuView, call, hist, conv>>

PollWork ==
    /\ gpu.pc = "waitWork"
    /\ ~gpu.done /\ gpu.timeout > 0
    /\ gpu' = PollOnce(gpu)
    /\ UNCHANGED <<kind, self, inputOp, cpuView, call, hist, conv>>

WorkLoopEnd ==
    /\ gpu.pc = "waitWork"
    /\ ~(~gpu.done /\ gpu.timeout > 0)
    /\ gpu' = LoopEnd(gpu, "workCheck")
    /\ UNCHANGED <<kind, self, inputOp, cpuView, call, hist, conv>>

WorkChecked ==
    /\ gpu.pc = "workCheck"
    /\ gpu' = WorkCheck(gpu)
    /\ UNCHANGED <<kind, self, inputOp, cpuView, call, hist, conv>>

PollMap ==
    /\ gpu.pc = "waitMap"
    /\ ~gpu.done /\ gpu.timeout > 0
    /\ gpu' = PollOnce(gpu)
    /\ UNCHANGED <<kind, self, inputOp, cpuView, call, hist, conv>>

MapLoopEnd ==
    /\ gpu.pc = "waitMap"
    /\ ~(~gpu.done /\ gpu.timeout > 0)
    /\ gpu' = LoopEnd(gpu, "mapCheck")
    /\ UNCHANGED <<kind, self, inputOp, cpuView, call, hist, conv>>

MapChecked ==
    /\ gpu.pc = "mapCheck"
    /\ \E range \in BOOLEAN :
          /\ range => gpu.buffer = "mapped"
          /\ gpu' = MapCheck(gpu, range)
    /\ UNCHANGED <<kind, self, inputOp, cpuView, call, hist, conv>>

\* the statements of a running textureToMat call
Running == PollWork \/ WorkLoopEnd \/ WorkChecked \/ PollMap \/ MapLoopEnd \/ MapChecked

NextCodec ==
    \/ CreateTexture \/ MatToTextureCall \/ TextureToMatCall
    \/ WorkDoneCallback \/ MapCallback \/ LateCallback
    \/ PollWork \/ WorkLoopEnd \/ WorkChecked \/ PollMap \/ MapLoopEnd \/ MapChecked

\* the thread inside textureToMat keeps running; no callback has to arrive
SpecCodec == InitCodec /\ [][NextCodec]_vars /\ WF_vars(Running)

(***************************************************************************)
(* The operators with a GPU output texture                                 *)
(*                                                                         *)
(* optical_flow.cpp and the second blob_track.cpp upload the frame to a    *)
(* texture of their own instead of keeping a pixel buffer.  `self` is the  *)
(* operator record with the four texture fields added (m_outputPixels is   *)
(* what the cook uploads), `gpu` is the device: the handles it has handed  *)
(* out and not yet seen released, and the size last asked for.             *)
(***************************************************************************)
\* at most this many textures are created
MaxTextures == 3

GpuKinds == {"OpticalFlowGpu", "BlobTrackGpu"}

\* the sizes matchInputResolution(0) leaves in outputWidth(), outputHeight()
InitSizes == {<<0, 0>>, <<16, 16>>, <<40, 40>>}

\* the handles a pointer holds
Held(ptr) == IF ptr = NULL THEN {} ELSE {ptr[1]}

NoDevice == [pc |-> "idle", created |-> 0, textures |-> {}, views |-> {}, asked |-> NULL]

\* WGPUTexture m_cvOutput = nullptr; WGPUTextureView m_cvOutputView = nullptr;
\* int m_cvWidth = 0; int m_cvHeight = 0;
GpuNew(k) ==
    LET base == IF k = "OpticalFlowGpu" THEN OpticalFlowNew ELSE BlobTrackNew
        more == [m_cvOutput |-> NULL, m_cvOutputView |-> NULL, m_cvWidth |-> 0, m_cvHeight |-> 0]
    IN  [f \in DOMAIN base \cup DOMAIN more |-> IF f \in DOMAIN more THEN more[f] ELSE base[f]]

\* releaseCustomOutput / releaseOutput: the view, then the texture
releaseCustomOutput(op, dev) ==
    [op  |-> [op EXCEPT !.m_cvOutputView = NULL, !.m_cvOutput = NULL],
     dev |-> [dev EXCEPT !.views = @ \ Held(op.m_cvOutputView),
                         !.textures = @ \ Held(op.m_cvOutput)]]

\* createOutputWithCopyDst that keeps a texture of any size
createOutputAnySize(op, dev, width, height) ==
    IF op.m_cvOutput # NULL
    THEN [op |-> op, dev |-> [dev EXCEPT !.asked = <<width, height>>]]
    ELSE LET rel == releaseCustomOutput(op, dev)
             id  == dev.created + 1
         IN  [op  |-> [rel.op EXCEPT !.m_cvWidth = width, !.m_cvHeight = height,
                                     !.m_cvOutput = <<id>>, !.m_cvOutputView = <<id>>],
              dev |-> [rel.dev EXCEPT !.created = id, !.asked = <<width, height>>,
                                      !.textures = @ \cup {id}, !.views = @ \cup {id}]]

\* createOutputWithCopyDst / createOutputTexture; the view of texture id is
\* view id
createOutputWithCopyDst(op, dev, width, height) ==
    IF op.m_cvOutput # NULL /\ op.m_cvWidth = width /\ op.m_cvHeight = height
    THEN [op |-> op, dev |-> [dev EXCEPT !.asked = <<width, height>>]]
    ELSE LET rel == releaseCustomOutput(op, dev)
             id  == dev.created + 1
         IN  [op  |-> [rel.op EXCEPT !.m_cvWidth = width, !.m_cvHeight = height,
                                     !.m_cvOutput = <<id>>, !.m_cvOutputView = <<id>>],
              dev |-> [rel.dev EXCEPT !.created = id, !.asked = <<width, height>>,
                                      !.textures = @ \cup {id}, !.views = @ \cup {id}]]

\* init: matchInputResolution(0), each dimension raised to 1, the texture
GpuInit(op, dev, size) ==
    createOutputWithCopyDst(op, dev,
                            IF size[1] <= 0 THEN 1 ELSE size[1],
                            IF size[2] <= 0 THEN 1 ELSE size[2])

\* process: the early exits, the texture, the cook and the upload
GpuProcess(k, op, dev, input, view) ==
    LET r == IF k = "OpticalFlowGpu" THEN OpticalFlowProcess(op, input, view)
             ELSE BlobTrackProcess(op, input, view)
    IN  IF r.call.path \in FullPaths
        THEN LET made == createOutputWithCopyDst(r.op, dev, view.width, view.height)
             IN  [op |-> made.op, dev |-> made.dev, call |-> r.call]
        ELSE [op |-> r.op, dev |-> dev, call |-> r.call]

\* cleanup: the texture, then the state of the algorithm
GpuCleanup(k, op, dev) ==
    LET rel == releaseCustomOutput(op, dev)
    IN  [op  |-> IF k = "OpticalFlowGpu" THEN OpticalFlowCleanup(rel.op)
                 ELSE BlobTrackCleanup(rel.op),
         dev |-> rel.dev]

InitGpu ==
    /\ kind \in GpuKinds
    /\ self = GpuNew(kind)
    /\ inputOp = FALSE
    /\ cpuView = InvalidView
    /\ call = NoCall
    /\ hist = NoHist
    /\ gpu = NoDevice
    /\ conv = NoConv

GpuInitCall ==
    /\ gpu.created < MaxTextures
    /\ \E size \in InitSizes :
          LET r == GpuInit(self, gpu, size)
          IN  self' = r.op /\ gpu' = r.dev
    /\ call' = [NoCall EXCEPT !.path = "init"]
    /\ UNCHANGED <<kind, inputOp, cpuView, hist, conv>>

GpuProcessCall ==
    /\ gpu.created < MaxTextures
    /\ LET r == GpuProcess(kind, self, gpu, inputOp, cpuView)
       IN  self' = r.op /\ gpu' = r.dev /\ call' = r.call
    /\ UNCHANGED <<kind, inputOp, cpuView, hist, conv>>

GpuCleanupCall ==
    /\ LET r == GpuCleanup(kind, self, gpu)
       IN  self' = r.op /\ gpu' = r.dev
    /\ call' = [NoCall EXCEPT !.path = "cleanup"]
    /\ UNCHANGED <<kind, inputOp, cpuView, hist, conv>>

NextGpu ==
    \/ GpuInitCall \/ GpuProcessCall \/ GpuCleanupCall
    \/ Connect \/ Disconnect \/ NewFrame

SpecGpu == InitGpu /\ [][NextGpu]_vars

(***************************************************************************)
(* Statements about the operators                                          *)
(***************************************************************************)
\* a step of a process call: only process calls leave a call record
ProcessStep == call'.path # "none"

TooSmall(view) == view.width < MinSize \/ view.height < MinSize

\* the buffer of a solid opaque black frame of the size of the view
BlackPixels(view) ==
    [size |-> view.width * view.height * 4,
     px |-> [tag |-> "solid", bgra |-> <<0, 0, 0, 255>>, of |-> 0]]

SameOutput ==
    /\ self'.m_outputPixels = self.m_outputPixels
    /\ self'.m_outputWidth = self.m_outputWidth
    /\ self'.m_outputHeight = self.m_outputHeight

\* C1: every process call entered while the operator is dirty calls didCook
\* exactly once and leaves the operator clean, on every path.
C1_DirtyCallCooksOnce ==
    call.path \notin {"none", "clean"} => (call.cooks = 1 /\ ~self.dirty)

\* C2: a process call made while the operator is not dirty changes nothing of
\* the operator: output, contours, previous luminance and flow, detector and
\* cache, dirty flag.
C2_CleanCallChangesNothing ==
    [][(~self.dirty /\ ProcessStep) => self' = self]_vars

C2_Witness == call.path = "clean" /\ self.m_outputPixels # EmptyPixels

\* C3: a dirty operator processed with no input connected or with an invalid
\* pixel view keeps its output buffer, width and height, and raises no error.
C3_SkipKeepsOutput ==
    [][(self.dirty /\ ProcessStep /\ (~inputOp \/ ~valid(cpuView)))
          => (SameOutput /\ call'.path # "threw")]_vars

C3_Witness == call.path = "invalidView" /\ self.m_outputPixels # EmptyPixels

\* C4: processing a valid input below 16 pixels in width or height leaves the
\* operator in exactly the state that processing an invalid view from the same
\* state leaves it in: everything unchanged, operator clean.
C4_TooSmallLikeInvalid ==
    [][(self.dirty /\ ProcessStep /\ inputOp /\ valid(cpuView) /\ TooSmall(cpuView))
          => /\ self' = Process(kind, self, TRUE, InvalidView).op
             /\ self' = [self EXCEPT !.dirty = FALSE]]_vars

C4_Witness ==
    /\ call.path = "tooSmall"
    /\ cpuView.height >= MinSize
    /\ self.m_outputPixels # EmptyPixels

\* C5: of two process calls in a row, with no parameter change and no new
\* frame between them, at most one performs the algorithm, and the second
\* leaves the output buffer as the first left it.
C5_SecondCallRecomputesNothing ==
    [][(call.path # "none" /\ ProcessStep)
          => (hist'.runs <= 1 /\ self'.m_outputPixels = self.m_outputPixels)]_vars

CacheDiffers == \E p \in BlobParams : self.last[p] # self.params[p]

\* C6 (as claimed): the detector is rebuilt during a cook if and only if one of
\* the eight cached parameter values differs from the current value.
C6_RebuildIffCacheDiffers ==
    [][(kind = "BlobTrack" /\ call'.path = "cooked")
          => (call'.built <=> CacheDiffers)]_vars

\* C6 (amended): the detector is rebuilt during a cook if and only if there is
\* no detector (first cook, or first cook after cleanup) or one of the eight
\* cached parameter values differs from the current value.
C6_RebuildIffNoDetectorOrCacheDiffers ==
    [][(kind = "BlobTrack" /\ call'.path = "cooked")
          => (call'.built <=> (self.detector = NULL \/ CacheDiffers))]_vars

C6_Witness ==
    kind = "BlobTrack" /\ call.path = "cooked" /\ ~call.built /\ self.detector # NULL

\* C7: over consecutive full cooks with identical values of the eight
\* parameters and no cleanup between them, the detector is built in the first
\* cook and in no later one.
C7_BuiltOncePerRun ==
    [][(kind = "BlobTrack" /\ call'.path = "cooked")
          => (call'.built <=> hist.cookParams # <<self.params>>)]_vars

C7_Witness ==
    /\ kind = "BlobTrack"
    /\ call.path = "cooked"
    /\ ~call.built
    /\ self.params # BlobDefaults

\* C8: a full cook without a previous luminance, or with one whose size is not
\* the working size, computes no flow and emits a solid opaque black frame of
\* the input size, in every visualization mode.
C8_NoPreviousFrameGivesBlack ==
    [][(/\ kind = "OpticalFlow"
        /\ call'.path \in FullPaths
        /\ \/ ~self.hasPrevFrame
           \/ <<self.prevGray.cols, self.prevGray.rows>> # GraySize(cpuView, self.scale))
          => /\ ~call'.flowed
             /\ self'.m_outputWidth = cpuView.width
             /\ self'.m_outputHeight = cpuView.height
             /\ self'.m_outputPixels = BlackPixels(cpuView)]_vars

C8_Witness ==
    /\ kind = "OpticalFlow"
    /\ call.path = "cooked"
    /\ ~call.flowed
    /\ self.flow # NoMat
    /\ self.vizMode = 2
    /\ self.m_outputPixels = BlackPixels(cpuView)

\* C9 (as claimed): a full cook whose input resolution differs from that of the
\* previous full cook computes no flow and emits the solid opaque black frame.
C9_ResizeInvalidatesPrevious ==
    (kind = "OpticalFlow" /\ call.path \in FullPaths /\ hist.resized)
        => (~call.flowed /\ self.m_outputPixels = BlackPixels(cpuView))

\* C9 (amended): a full cook whose working resolution differs from that of the
\* previous full cook computes no flow and emits the solid opaque black frame.
C9_ReworkInvalidatesPrevious ==
    (kind = "OpticalFlow" /\ call.path \in FullPaths /\ hist.reworked)
        => (~call.flowed /\ self.m_outputPixels = BlackPixels(cpuView))

C9_Witness ==
    /\ kind = "OpticalFlow"
    /\ call.path = "cooked"
    /\ hist.reworked
    /\ hist.resized
    /\ self.m_outputPixels = BlackPixels(cpuView)

\* C10: after every full cook the stored previous luminance is the luminance
\* of the frame just processed, at the working resolution, and the
\* has-previous-frame flag is true; a skipped cook leaves both unchanged.
C10_PreviousIsFrameJustProcessed ==
    [][(kind = "OpticalFlow" /\ ProcessStep)
          => /\ call'.path \in FullPaths
                  => /\ self'.hasPrevFrame
                     /\ self'.prevGray = [cols |-> GraySize(cpuView, self.scale)[1],
                                          rows |-> GraySize(cpuView, self.scale)[2],
                                          of   |-> cpuView.data]
             /\ call'.path \in SkipPaths
                  => /\ self'.prevGray = self.prevGray
                     /\ self'.hasPrevFrame = self.hasPrevFrame]_vars

(***************************************************************************)
(* Statements about the TextureCodec                                       *)
(***************************************************************************)
\* C11: textureToMat always terminates: neither polling loop makes more than
\* 1000 iterations, and when the completion it waited for is still not
\* signalled after the loop the call returns an empty image.
C11_DecodeTerminates ==
    /\ [](gpu.polls <= PollBudget)
    /\ [][(gpu.pc \in {"workCheck", "mapCheck"} /\ ~gpu.done /\ gpu'.pc # gpu.pc)
              => (gpu'.pc = "idle" /\ gpu'.ret.result = NoImage)]_vars
    /\ (gpu.pc # "idle") ~> (gpu.pc = "idle")

\* the map never completed: 1000 polls, then an empty image
C11_Witness ==
    /\ gpu.pc = "idle"
    /\ gpu.ret.path = "mapTimeout"
    /\ gpu.polls = PollBudget
    /\ gpu.ret.result = NoImage

\* C12: textureToMat returns an empty image or a fully populated
\* width x height image; it returns the empty one on every failure path (null
\* texture, non-positive size, no buffer, either timeout, a map status other
\* than Success, no mapped range).
C12_EmptyOrFull ==
    gpu.ret.fn = "textureToMat" =>
        IF gpu.ret.path = "ok"
        THEN /\ gpu.args.texture /\ gpu.args.width > 0 /\ gpu.args.height > 0
             /\ gpu.status = "Success"
             /\ gpu.ret.result.cols = gpu.args.width
             /\ gpu.ret.result.rows = gpu.args.height
             /\ DOMAIN gpu.ret.result.data = 1..(gpu.args.width * gpu.args.height)
             /\ \A i \in DOMAIN gpu.ret.result.data :
                    gpu.ret.result.data[i] = DecodePixel(gpu.tex.texels[i])
        ELSE gpu.ret.result = NoImage

\* the map succeeded on a written texture, the mapped range was null
C12_Witness ==
    /\ gpu.ret.fn = "textureToMat"
    /\ gpu.ret.path = "noRange"
    /\ gpu.tex.texels[1] # <<0, 0, 0, 0>>
    /\ gpu.ret.result = NoImage

Abs(n) == IF n < 0 THEN -n ELSE n

\* C14: for every 8-bit value of every channel (B, G, R, A), decoding the half
\* produced by encoding it gives a value within 1 of it.
C14_RoundTripWithinOne ==
    conv.stage = "back" => \A c \in 1..4 : Abs(conv.out[c] - conv.px[c]) <= 1

\* the alpha channel does come back one lower
C14_Witness ==
    /\ conv.stage = "back"
    /\ conv.px[4] = 128
    /\ conv.out[4] = 127
    /\ conv.out[1] = conv.px[1]

\* C15: for every width >= 1 the row stride is the smallest multiple of 256
\* that is at least width x bytesPerPixel, for 8 and for 4 bytes per pixel.
C15_StrideIsSmallestMultiple ==
    conv.stage = "row" =>
        /\ conv.bytesPerRow % 256 = 0
        /\ conv.width * conv.bytesPerPixel <= conv.bytesPerRow
        /\ conv.bytesPerRow < conv.width * conv.bytesPerPixel + 256

\* a row of 33 pixels of 8 bytes is padded from 264 to 512 bytes
C15_Witness ==
    /\ conv.stage = "row"
    /\ conv.width = 33
    /\ conv.bytesPerPixel = 8
    /\ conv.bytesPerRow = 512

(***************************************************************************)
(* Statements about the operators' buffers and parameters                  *)
(***************************************************************************)

\* C16: no process call of Contours, OpticalFlow or BlobTrack, whatever the
\* mode and the scale (the full-resolution path, where `small` shares the
\* input's storage, included), changes the upstream pixel buffer; what it
\* draws on is the separately allocated output
C16_InputReadOnly ==
    [][call'.path # "none"
          => /\ cpuView' = cpuView
             /\ Upstream \notin call'.wrote
             /\ call'.path \in FullPaths => "output" \in call'.wrote]_vars

\* OpticalFlow computed flow in arrow mode on the full-resolution path, and
\* the frame upstream is still there
C16_Witness ==
    /\ kind = "OpticalFlow"
    /\ call.path = "cooked"
    /\ call.flowed
    /\ self.vizMode = 1
    /\ SmallStorage(self.scale) = Upstream
    /\ "output" \in call.wrote
    /\ cpuView.data > 0

\* C17: in every reachable state the output buffer holds outputWidth x
\* outputHeight x 4 bytes, the output dimensions are those of the input of the
\* last full cook (0 x 0 before the first one and after cleanup), and
\* cpuPixelView() is valid exactly when the buffer is not empty
C17_OutputBufferInvariant ==
    /\ self.m_outputPixels.size = self.m_outputWidth * self.m_outputHeight * 4
    /\ <<self.m_outputWidth, self.m_outputHeight>> =
           (IF hist.lastCook = NULL THEN <<0, 0>> ELSE hist.lastCook)
    /\ valid(cpuPixelView(self)) <=> self.m_outputPixels.size # 0

\* the parameters with both polarity flags on
BothOn(p) == [p EXCEPT !.detectBright = 1, !.detectDark = 1]

\* C18: with detectBright = detectDark = 0 a cook does what it does with both
\* flags on: the detector has the color filter disabled and the luminance is
\* binarized with the standard threshold; blob color 255 is selected by
\* bright-only and only by it, blob color 0 with the inverted threshold by
\* dark-only and only by it
C18_BothOffIsBothOn ==
    (kind = "BlobTrack" /\ call.path = "cooked") =>
        LET p        == self.params
            d        == self.detector[1]
            type     == self.m_outputPixels.px.binary.type
            bright   == p.detectBright = 1 /\ p.detectDark = 0
            dark     == p.detectBright = 0 /\ p.detectDark = 1
            asBothOn == BlobTrackCook([self EXCEPT !.params = BothOn(p), !.detector = NULL],
                                      cpuView).op
        IN  /\ ~bright /\ ~dark =>
                  /\ ~d.filterByColor
                  /\ type = "THRESH_BINARY"
                  /\ self.detector = asBothOn.detector
                  /\ self.keypoints = asBothOn.keypoints
                  /\ self.m_outputPixels = asBothOn.m_outputPixels
            /\ bright <=> (d.filterByColor /\ d.blobColor = BrightColor)
            /\ bright => type = "THRESH_BINARY"
            /\ dark <=> (d.filterByColor /\ d.blobColor = 0)
            /\ dark <=> type = "THRESH_BINARY_INV"

\* a cook with both flags off
C18_Witness ==
    /\ kind = "BlobTrack"
    /\ call.path = "cooked"
    /\ self.params.detectBright = 0
    /\ self.params.detectDark = 0
    /\ ~self.detector[1].filterByColor
    /\ self.m_outputPixels.px.binary.type = "THRESH_BINARY"

\* the working size at factor s, as process derives it from the factor
WorkingSize(view, s) ==
    IF s < FullResScale
    THEN <<ProcDim(view.width, s), ProcDim(view.height, s)>>
    ELSE <<view.width, view.height>>

\* C19: a scale inside the declared range 0.05..1.0 is the working-resolution
\* factor as it is: the frame a cook keeps for the next one has the working
\* size of that factor
C19_DeclaredScaleUsedUnchanged ==
    (/\ kind = "OpticalFlow"
     /\ call.path = "cooked"
     /\ self.scale >= ScaleDeclaredMin
     /\ self.scale <= ScaleHi)
        => <<self.prevGray.cols, self.prevGray.rows>> = WorkingSize(cpuView, self.scale)

\* the buffer of a fully transparent frame of the size of the view: every
\* byte 0
TransparentPixels(view) == AssignPixels(SolidMat(view.width, view.height, 0, 0, 0, 0))

\* C20: a cook of Contours on the all-black frame, whatever the thresholds and
\* the retrieval mode, traces no contour; and whenever a cook traces no
\* contour the output buffer is fully transparent, at the input resolution
C20_NoContoursGivesTransparent ==
    (kind = "Contours" /\ call.path = "cooked") =>
        /\ cpuView.data = BlackFrame => self.contours = 0
        /\ self.contours = 0 =>
               /\ self.m_outputPixels = TransparentPixels(cpuView)
               /\ self.m_outputWidth = cpuView.width
               /\ self.m_outputHeight = cpuView.height

\* the all-black frame cooked with both thresholds at 0 in a mode that keeps
\* inner boundaries
C20_Witness ==
    /\ kind = "Contours"
    /\ call.path = "cooked"
    /\ cpuView.data = BlackFrame
    /\ self.threshold1 = 0
    /\ self.threshold2 = 0
    /\ self.mode = 3
    /\ self.contours = 0
    /\ self.m_outputPixels = TransparentPixels(cpuView)

\* C22: on every cook that computes flow in ColorWheel mode the saturation
\* plane (procWidth x procHeight) has the dimensions of the flow field, which
\* are those of the hue and value planes, so that the planes can be merged
C22_PlanesSameSize ==
    (kind = "OpticalFlow" /\ call.flowed /\ self.vizMode = 0)
        => /\ SatSize(cpuView, self.scale) = <<self.flow.cols, self.flow.rows>>
           /\ call.path = "cooked"

\* C25: cleanup of OpticalFlow discards the previous-frame state (flag false,
\* luminance and flow released) and empties the output; the first full cook
\* after it computes no flow and emits the solid opaque black frame, whatever
\* was cooked before
C25_CleanupForgetsPrevious ==
    [][/\ OpticalFlowCleanupCall
            => /\ ~self'.hasPrevFrame
               /\ self'.prevGray = NoMat
               /\ self'.flow = NoMat
               /\ self'.m_outputPixels = EmptyPixels
               /\ ~valid(cpuPixelView(self'))
       /\ (kind = "OpticalFlow" /\ hist.lastCook = NULL /\ call'.path \in FullPaths)
            => /\ call'.path = "cooked"
               /\ ~call'.flowed
               /\ self'.m_outputPixels = BlackPixels(cpuView)]_vars

\* the first full cook after a cleanup that followed a cook of the same frame
\* size at the same working size
C25_Witness ==
    /\ kind = "OpticalFlow"
    /\ call.path = "cooked"
    /\ ~call.flowed
    /\ hist.recooked
    /\ ~hist.resized
    /\ ~hist.reworked
    /\ hist.runs = 1
    /\ self.m_outputPixels = BlackPixels(cpuView)

\* contourCount(): m_impl->contours.size()
contourCount(op) == op.contours

\* C28: contourCount() is non-zero only while a valid output buffer holding
\* the drawn contours exists; a skipped cook leaves it unchanged; after
\* cleanup it is 0
C28_CountConsistent ==
    /\ [](kind = "Contours" /\ contourCount(self) # 0
            => /\ valid(cpuPixelView(self))
               /\ self.m_outputPixels.px.tag = "contours")
    /\ [][(kind = "Contours" /\ call'.path \in SkipPaths)
            => contourCount(self') = contourCount(self)]_vars
    /\ [][ContoursCleanupCall => contourCount(self') = 0]_vars

\* C30: whenever the detector is invoked on a frame, a detector object exists,
\* it was built from the current values of the eight parameters, and the
\* cached values equal the current ones; a skipped cook changes neither the
\* detector nor the cache
C30_DetectorMatchesParameters ==
    /\ [](kind = "BlobTrack" /\ call.path = "cooked"
            => /\ self.detector = <<CreateDetector(self.params)>>
               /\ self.keypoints = Keypoints(cpuView.data, self.detector)
               /\ \A p \in BlobParams : self.last[p] = self.params[p])
    /\ [][(kind = "BlobTrack" /\ call'.path \in SkipPaths)
            => (self'.detector = self.detector /\ self'.last = self.last)]_vars

\* a detection by a detector built in the same cook from parameters that are
\* not all at their default
C30_Witness ==
    /\ kind = "BlobTrack"
    /\ call.path = "cooked"
    /\ call.built
    /\ self.last = self.params
    /\ self.params # BlobDefaults
    /\ self.detector = <<CreateDetector(self.params)>>

(***************************************************************************)
(* Statements about the operators with a GPU output texture                *)
(***************************************************************************)
\* the size the step asks a texture of
Asked == gpu'.asked

\* C29: init and a full cook release the output texture and its view and
\* create new ones if and only if there is no texture or the width or height
\* asked for differs from the texture's; a cook at the resolution of the
\* texture keeps it, no other call creates one, and after release both
\* handles are null and nothing is left on the device
C29_TextureRecreatedIffSizeDiffers ==
    [][/\ (call'.path = "init" \/ call'.path \in FullPaths)
            => /\ self'.m_cvOutput # self.m_cvOutput
                    <=> \/ self.m_cvOutput = NULL
                        \/ self.m_cvWidth # Asked[1]
                        \/ self.m_cvHeight # Asked[2]
               /\ self'.m_cvOutputView # self.m_cvOutputView
                    <=> self'.m_cvOutput # self.m_cvOutput
               /\ gpu'.textures = Held(self'.m_cvOutput)
               /\ gpu'.views = Held(self'.m_cvOutputView)
               /\ <<self'.m_cvWidth, self'.m_cvHeight>> = Asked
       /\ call'.path \in SkipPaths \cup {"clean", "none"}
            => (self'.m_cvOutput = self.m_cvOutput /\ self'.m_cvOutputView = self.m_cvOutputView)
       /\ call'.path = "cleanup"
            => /\ self'.m_cvOutput = NULL
               /\ self'.m_cvOutputView = NULL
               /\ gpu'.textures = {}
               /\ gpu'.views = {}]_vars

\* a full cook that is not the first one (it built no detector) and used the
\* only texture ever created
C29_Witness ==
    /\ kind = "BlobTrackGpu"
    /\ call.path = "cooked"
    /\ ~call.built
    /\ gpu.created = 1
    /\ self.m_cvOutput = <<1>>
    /\ gpu.textures = {1}
    /\ gpu.asked = <<cpuView.width, cpuView.height>>


(***************************************************************************)
(* Statements about the lifetime, the buffer and the steps of textureToMat *)
(***************************************************************************)
\* C21: no completion callback outlives the call that registered it: once
\* textureToMat has returned, after a loop that used up its budget included,
\* no callback that writes to the contexts of that call is still registered
C21_NoCallbackOutlivesCall == gpu.stale = {}
\* how often the call took `step`
Count(trace, step) == Cardinality({i \in DOMAIN trace : trace[i] = step})

\* the return statements of textureToMat past the creation of the buffer
BufferPaths == {"workTimeout", "mapTimeout", "mapFailed", "noRange", "ok"}

\* the return statements past the test of the map status
MappedPaths == {"noRange", "ok"}

ProtocolOrder == <<"submit", "workDone", "mapAsync", "mapSuccess", "read", "unmap", "release">>

\* the place of a step in that order
Place(step) == CHOOSE i \in DOMAIN ProtocolOrder : ProtocolOrder[i] = step

RoundTo8(h) ==
    LET f == halfToFloat(h)
    IN  IF f.sign = 1 \/ f.class = "zero" THEN 0
        ELSE IF f.class = "inf" \/ f.exp >= 0 THEN 255
        ELSE ((1024 + f.mant) * 255 * 2 + 2^(10 - f.exp)) \div 2^(11 - f.exp)

\* C26: decoding converts every one of the four channels, alpha included,
\* with round-to-nearest (value x 255 + 0.5, truncated); B, G, R go through
\* the gamma transfer first, alpha stays linear
C26_EveryChannelRounded ==
    conv.stage = "back" =>
        conv.out = << ColorTo8(conv.texel[3]), ColorTo8(conv.texel[2]),
                      ColorTo8(conv.texel[1]), RoundTo8(conv.texel[4]) >>

\* the sign bit and the exponent field of a half
SignBit(h) == (h \div 2^15) % 2
ExpField(h) == (h \div 2^10) % 32

\* the half of 1.0: exponent field 15, mantissa 0
HalfOne == 15 * 1024

\* C27: for every 8-bit input of every channel the half written has sign bit
\* 0 and an exponent field in 0..15, never the field 31 of an infinity or a
\* NaN; the input 0 gives the all-zero pattern and alpha 255 the pattern of
\* 1.0
C27_EncodedInUnitRange ==
    conv.stage = "texel" =>
        /\ \A c \in 1..4 :
               /\ conv.texel[c] \in 0..(2^16 - 1)
               /\ SignBit(conv.texel[c]) = 0
               /\ ExpField(conv.texel[c]) \in 0..15
               /\ ExpField(conv.texel[c]) = 15 => conv.texel[c] = HalfOne
        /\ conv.px[1] = 0 => conv.texel[3] = 0
        /\ conv.px[2] = 0 => conv.texel[2] = 0
        /\ conv.px[3] = 0 => conv.texel[1] = 0
        /\ conv.px[4] = 0 => conv.texel[4] = 0
        /\ conv.px[4] = 255 => conv.texel[4] = HalfOne

\* the pixel with alpha 255 is encoded: its alpha half is 1.0, its colour
\* halves lie below
C27_Witness ==
    /\ conv.stage = "texel"
    /\ conv.px[4] = 255
    /\ conv.texel[4] = HalfOne
    /\ \A c \in 1..3 : conv.texel[c] \in 1..(HalfOne - 1)

====
